---- MODULE Spec2Model ----
(***************************************************************************)
(* Model of backend/modules/sun_router.py: SunRouter.fetch_rainfall,       *)
(* SunRouter.calculate_shadows and SunRouter.analyze_routes (route scoring *)
(* by shadow / shelter protection), and of the two callers that fetch the  *)
(* routes first, SunRouter.find_shadiest_path and get_routes of main.py;    *)
(* of the on-disk cache of SunRouter.compute_routes_v2; and of the report   *)
(* endpoints of main.py on the reports table.                               *)
(*                                                                         *)
(* Geometry is one-dimensional.  The metric frame (EPSG:3857) is a line    *)
(* divided into cells of CellM metres; a coordinate k stands for k*CellM   *)
(* metres.  A step line is a closed interval [lo, hi] (lo = hi is a line   *)
(* of two identical points, length 0), a polygon is a closed interval      *)
(* [a, b] with a < b, a rain station is a point x in metres.  Lengths are  *)
(* integers (metres); a ratio is the exact fraction <<num, den>> in lowest *)
(* terms, so two ratios are equal exactly when the records are equal.      *)
(* Passthrough fields of a route or step that no computation reads         *)
(* (summary, duration, distanceMeters, instruction, distance text) are     *)
(* carried inside 'data' and not repeated.                                 *)
(***************************************************************************)
EXTENDS Integers, Sequences, FiniteSets, TLC

\* ---------------------------------------------------------------- bounds
MaxRoutes == 2
MaxReadings == 1
MaxCalls == 2
CellM == 500
MaxRouteCalls == 3
MaxReports == 3
MaxConfirmations == 3

\* ------------------------------------------------------ program constants
RAIN_PROXIMITY_METERS == 5000
NEARBY_BUFFER_METERS == 100
DEFAULT_HEIGHT == 10
LEVEL_HEIGHT == 3
SCALE_CAP == 100

None == "None"

\* ----------------------------------------------------------------- state
VARIABLES
    shelters_3857,            \* SunRouter attribute set by __init__
    routes_data,              \* argument of analyze_routes
    shadows,                  \* argument of analyze_routes
    pc,                       \* position in analyze_routes
    raining_points_3857,      \* raining stations of this call
    fetch_failed,             \* whether this call's rainfall fetch failed
    rain_response,            \* what the rainfall request of this call came back with
    ri,                       \* index of the route of the outer loop
    si,                       \* index of the step of the inner loops
    totals,                   \* the six accumulators of the route
    steps_analysis,
    route_sheltered_segments,
    nearby_shelters_indices,
    is_rain_likely,
    scored_routes,
    returned,                 \* what each finished call returned
    entry,                    \* the function the caller invoked
    prefer_shade,             \* request.prefer_shade of get_routes
    buildings,                \* the footprints get_buildings fetched
    sun_altitude,             \* in tenths of a degree
    sun_azimuth,              \* in degrees
    scale_factor,             \* local of calculate_shadows, in thousandths
    result,                   \* what the caller received
    suspended,                \* the frame of the other invocation on this SunRouter
    cache_dir,                \* the files of cache_data/, by payload
    route_calls,              \* the calls of compute_routes_v2 so far
    reports,                  \* the rows of the reports table, by id
    response                  \* what the last report request was answered

vars == << shelters_3857, routes_data, shadows, pc, raining_points_3857, fetch_failed,
           rain_response,
           ri, si, totals, steps_analysis, route_sheltered_segments,
           nearby_shelters_indices, is_rain_likely, scored_routes, returned,
           entry, prefer_shade, buildings, sun_altitude, sun_azimuth, scale_factor,
           result, suspended, cache_dir, route_calls, reports, response >>

stores == << cache_dir, route_calls, reports, response >>

caller == << entry, prefer_shade, buildings, sun_altitude, sun_azimuth, scale_factor,
             result >>

inputs == << shelters_3857, routes_data, shadows >>

route_locals == << totals, steps_analysis, route_sheltered_segments,
                   nearby_shelters_indices, is_rain_likely >>

\* --------------------------------------------------------------- helpers
Max(a, b) == IF a >= b THEN a ELSE b

Min(a, b) == IF a <= b THEN a ELSE b

RECURSIVE GCD(_, _)
GCD(a, b) == IF b = 0 THEN a ELSE GCD(b, a % b)

\* a / b as Python computes it for b > 0, kept exact
Div(a, b) == <<a \div GCD(a, b), b \div GCD(a, b)>>

Zero == <<0, 1>>

\* r1 > r2 on fractions with positive denominators
RatioGT(r1, r2) == r1[1] * r2[2] > r2[1] * r1[2]

RECURSIVE SetToSeq(_)
\* the elements of a finite set of integers or tuples of integers, ascending
SetToSeq(S) ==
    IF S = {} THEN <<>>
    ELSE LET m == CHOOSE x \in S : \A y \in S : x = y \/ ~(y[1] < x[1])
         IN <<m>> \o SetToSeq(S \ {m})

RECURSIVE IntSetToSeq(_)
IntSetToSeq(S) ==
    IF S = {} THEN <<>>
    ELSE LET m == CHOOSE x \in S : \A y \in S : x <= y
         IN <<m>> \o IntSetToSeq(S \ {m})

\* -------------------------------------------------------------- geometry
\* cells covered by a list of polygons (unary_union of the polygons)
UnaryUnion(polys) == UNION {polys[i].a .. (polys[i].b - 1) : i \in 1..Len(polys)}

LineCells(line) == line.lo .. (line.hi - 1)

\* LineString.length
LineLength(line) == (line.hi - line.lo) * CellM

\* length of line.intersection(area), area a set of cells
IntersectionCells(line, area) == LineCells(line) \cap area

IntersectionLength(line, area) == Cardinality(IntersectionCells(line, area)) * CellM

\* line.distance(point), point at x metres
Distance(line, x) == Max(0, Max(line.lo * CellM - x, x - line.hi * CellM))

\* shapely 'intersects' of a line and a closed polygon: touching counts
PolyIntersects(line, poly) == poly.a <= line.hi /\ line.lo <= poly.b

ShelterIntersects(line, sh) == \E i \in 1..Len(sh.parts) : PolyIntersects(line, sh.parts[i])

\* line.buffer(d) intersects the shelter
BufferIntersects(line, d, sh) ==
    \E i \in 1..Len(sh.parts) :
        /\ sh.parts[i].a * CellM <= line.hi * CellM + d
        /\ line.lo * CellM - d <= sh.parts[i].b * CellM

\* the LineString pieces of a linear intersection: maximal runs of cells
Runs(cells) ==
    SetToSeq({<<a, b>> \in (cells \X {c + 1 : c \in cells}) :
                 /\ a < b
                 /\ \A c \in a..(b - 1) : c \in cells
                 /\ (a - 1) \notin cells
                 /\ b \notin cells})

\* ---------------------------------------------------------------- inputs
Line(lo, hi) == [lo |-> lo, hi |-> hi]

Poly(a, b) == [a |-> a, b |-> b]

\* a step of a Routes API v2 leg: polyline is "missing" (no encodedPolyline),
\* "one" (decodes to a single point), "bad" (decode_polyline raises on it, as
\* on a string cut off inside a number) or "ok" (decodes to the line)
Step(polyline, mode, lo, hi) ==
    [polyline |-> polyline, travelMode |-> mode, line |-> Line(lo, hi)]

W01 == Step("ok", "WALK", 0, 1)

W12 == Step("ok", "WALK", 1, 2)

W23 == Step("ok", "WALK", 2, 3)

W02 == Step("ok", "WALK", 0, 2)

W11 == Step("ok", "WALK", 1, 1)

T12 == Step("ok", "TRANSIT", 1, 2)

T23 == Step("ok", "TRANSIT", 2, 3)

WMissing == Step("missing", "WALK", 0, 0)

WOnePoint == Step("one", "WALK", 3, 3)

WBad == Step("bad", "WALK", 0, 1)

Leg(steps) == [steps |-> steps]

Route(legs) == [legs |-> legs]

\* the routes the route planner may have returned
RoutePool ==
    { Route(<<>>),                                   \* no legs
      Route(<<Leg(<<WOnePoint>>), Leg(<<>>)>>),      \* nothing to analyse
      Route(<<Leg(<<W01>>)>>),
      Route(<<Leg(<<W12>>)>>),
      Route(<<Leg(<<W02>>)>>),
      Route(<<Leg(<<W01>>), Leg(<<T12>>)>>),         \* walk, then transit
      Route(<<Leg(<<T12, T23>>)>>),                  \* no walking step
      Route(<<Leg(<<W01, W23>>)>>),
      Route(<<Leg(<<W23>>), Leg(<<W01>>)>>),
      Route(<<Leg(<<W11, WMissing, W23>>)>>),
      Route(<<Leg(<<WBad, W01>>)>>) }

RECURSIVE Flatten(_)
\* the steps of all legs in the order of the nested loops over legs and steps
Flatten(legs) == IF legs = <<>> THEN <<>> ELSE Head(legs).steps \o Flatten(Tail(legs))

\* lists of at most n routes
RouteLists(n) == UNION {[1..k -> RoutePool] : k \in 0..n}

ShadowSets == { <<>>, <<Poly(0, 1), Poly(2, 3)>> }

Shelter(type, parts) == [type |-> type, parts |-> parts]

\* an OSM tag of a building row: absent (or null), a text that float() reads
\* as value ("5", and "5 m" after the split), or a text it cannot read
Absent == [kind |-> "absent", value |-> 0]

Num(v) == [kind |-> "number", value |-> v]

Text == [kind |-> "text", value |-> 0]

\* a row of the buildings frame; parts are the polygons of its geometry (the
\* extent of its coordinates for a line); valid is FALSE for a footprint on
\* which the geometry library raises (as GEOS does in union on some
\* self-crossing rings)
Footprint(type, parts, height, levels, valid) ==
    [geom_type |-> type, parts |-> parts, height |-> height, levels |-> levels,
     valid |-> valid]

Building(type, parts, height, levels) == Footprint(type, parts, height, levels, TRUE)

House == Building("Polygon", <<Poly(2, 3)>>, Absent, Absent)

Tower == Building("Polygon", <<Poly(1, 2)>>, Num(500), Absent)

Block == Building("MultiPolygon", <<Poly(0, 1), Poly(4, 5)>>, Num(5), Absent)

Tree == Building("Point", <<>>, Absent, Absent)

Fence == Building("LineString", <<Poly(3, 4)>>, Absent, Absent)

\* no height tag, five levels
Hall == Building("Polygon", <<Poly(2, 3)>>, Absent, Num(5))

\* a height tag that is no number ("tall"), five levels
Shed == Building("Polygon", <<Poly(2, 3)>>, Text, Num(5))

\* a level count that is no number
Hut == Building("Polygon", <<Poly(2, 3)>>, Absent, Text)

\* both tags are numbers
Loft == Building("Polygon", <<Poly(1, 2)>>, Num(5), Num(5))

Broken == Footprint("Polygon", <<Poly(1, 2)>>, Absent, Absent, FALSE)

BuildingSets ==
    { <<>>, <<House>>, <<Tower>>, <<Tree, Block>>, <<House, Block>>,
      <<Fence, Hall>>, <<Shed>>, <<Hut, Loft>>, <<Broken, House>>, <<House, Broken>> }

\* sun altitudes in tenths of a degree: -5, 0, 0.5, 1, 45 and 90 degrees
AltitudePool == {-50, 0, 5, 10, 450, 900}

\* sun azimuths in degrees: due east and due west
AzimuthPool == {90, 270}

\* what the Routes API answers to compute_routes_v2: an error status, no
\* route, or one route
PlannerResponses ==
    { [status |-> 500, routes |-> <<>>], [status |-> 200, routes |-> <<>>] }
    \cup { [status |-> 200, routes |-> <<r>>] : r \in RoutePool }

\* what __init__ leaves in shelters_3857: None, or the projected dataset
ShelterSets ==
    { None,
      << Shelter("Polygon", <<Poly(0, 1)>>),
         Shelter("MultiPolygon", <<Poly(3, 4), Poly(4, 5)>>) >> }

\* a reading of the rainfall API joined with its station: numeric is FALSE
\* for a value that is no number (null, or a text such as "3" shown here by
\* the number it spells), known is FALSE when the station
\* list has no entry for stationId, x is the station's position in metres
Reading(sid, value, numeric, known, x) ==
    [stationId |-> sid, value |-> value, numeric |-> numeric, known |-> known, x |-> x]

ReadingPool ==
    { Reading("S50", 0, TRUE, TRUE, 6000),
      Reading("S50", 3, TRUE, TRUE, 6000),
      Reading("S81", 0, TRUE, TRUE, 6000),
      Reading("S81", 0, TRUE, FALSE, 6000),
      Reading("S203", 0, FALSE, TRUE, 6000),
      Reading("S60", 3, TRUE, TRUE, 9000),
      Reading("S70", 3, TRUE, FALSE, 6000),
      Reading("S50", 3, FALSE, TRUE, 6000) }

\* what the rainfall request can come back with
RainResponses ==
    { [kind |-> "exception", readings |-> <<>>],
      [kind |-> "status", readings |-> <<>>],
      [kind |-> "nodata", readings |-> <<>>],
      [kind |-> "malformed", readings |-> <<>>] }
    \cup { [kind |-> "ok", readings |-> rs]
             : rs \in UNION {[1..k -> ReadingPool] : k \in 0..MaxReadings} }

\* no response is being read
NoResponse == [kind |-> "none", readings |-> <<>>]

\* -------------------------------------------------------- fetch_rainfall
\* mutant of HardcodedStations: the second station is forgotten
OnlyS81 == {"S81"}

HardcodedStations == {"S81", "S203"}

\* val after the override of the two hardcoded stations
ReadingVal(r) == IF r.stationId \in HardcodedStations THEN 1 ELSE r.value

\* the comparison val > 0 raises on a value that is no number
ReadingRaises(r) == r.stationId \notin HardcodedStations /\ ~r.numeric

RECURSIVE RainingCoords(_)
\* raining_coords after the loop over the readings (none of them raising)
RainingCoords(readings) ==
    IF readings = <<>> THEN <<>>
    ELSE LET r == Head(readings)
         IN (IF ReadingVal(r) > 0 /\ r.known THEN <<r.x>> ELSE <<>>)
            \o RainingCoords(Tail(readings))

\* the request failed or the body could not be read as expected
FetchFails(resp) ==
    \/ resp.kind # "ok"
    \/ \E i \in 1..Len(resp.readings) : ReadingRaises(resp.readings[i])

\* mutant of fetch_rainfall: the readings are used although the fetch failed
FetchIgnoringFailure(resp) == RainingCoords(resp.readings)

fetch_rainfall(resp) == IF FetchFails(resp) THEN <<>> ELSE RainingCoords(resp.readings)

\* ----------------------------------------------------- calculate_shadows
\* 1000 / tan(alt) for the altitudes of AltitudePool above 0
CotMilli(alt) ==
    CASE alt = 5 -> 114589
      [] alt = 10 -> 57290
      [] alt = 450 -> 1000
      [] alt = 900 -> 0

\* sin of an angle in degrees that points along the line
SinDeg(d) == CASE d % 360 = 90 -> 1 [] d % 360 = 270 -> -1

\* mutant of ScaleFactor: the cap is forgotten
ScaleUncapped(alt) == CotMilli(alt)

\* scale_factor in thousandths, for an altitude above 0
ScaleFactor(alt) == IF alt < 10 THEN SCALE_CAP * 1000 ELSE CotMilli(alt)

\* height of a building row in metres
BuildingHeight(row) ==
    IF row.height.kind # "absent"
    THEN IF row.height.kind = "number" THEN row.height.value ELSE DEFAULT_HEIGHT
    ELSE IF row.levels.kind # "absent"
         THEN IF row.levels.kind = "number" THEN row.levels.value * LEVEL_HEIGHT
              ELSE DEFAULT_HEIGHT
         ELSE DEFAULT_HEIGHT

\* dx in thousandths of a metre
ShiftMilli(row, az, scale) == BuildingHeight(row) * scale * SinDeg(az + 180)

\* the inputs are chosen with shadows that end on cell borders
Aligned(rows, az, alt) ==
    alt > 0 => \A i \in 1..Len(rows) :
                  ShiftMilli(rows[i], az, ScaleFactor(alt)) % (1000 * CellM) = 0

\* convex hull of a part and the part moved by d cells
PartShadow(part, d) == Poly(Min(part.a, part.a + d), Max(part.b, part.b + d))

\* mutant of BuildingShadows: the parts of a MultiPolygon are merged again
\* into one shadow
BuildingShadowMerged(row, az, scale) ==
    IF row.geom_type \notin {"Polygon", "MultiPolygon"} THEN <<>>
    ELSE LET d == ShiftMilli(row, az, scale) \div (1000 * CellM)
             lo == Min(row.parts[1].a, row.parts[1].a + d)
             hi == Max(row.parts[Len(row.parts)].b, row.parts[Len(row.parts)].b + d)
         IN << Poly(lo, hi) >>

\* the shadows one row appends: none for other geometry, one per polygon
BuildingShadows(row, az, scale) ==
    IF row.geom_type \notin {"Polygon", "MultiPolygon"} THEN <<>>
    ELSE LET d == ShiftMilli(row, az, scale) \div (1000 * CellM)
         IN [k \in 1..Len(row.parts) |-> PartShadow(row.parts[k], d)]

RECURSIVE ShadowsOfBuildings(_, _, _)
\* calculated_shadows after the loop over the rows
ShadowsOfBuildings(rows, az, scale) ==
    IF rows = <<>> THEN <<>>
    ELSE BuildingShadows(Head(rows), az, scale)
            \o ShadowsOfBuildings(Tail(rows), az, scale)

\* mutant of calculate_shadows: no return for a sun below the horizon
ShadowsAtNight(rows, az, alt) == ShadowsOfBuildings(rows, az, SCALE_CAP * 1000)

calculate_shadows(rows, az, alt) ==
    IF alt <= 0 THEN <<>> ELSE ShadowsOfBuildings(rows, az, ScaleFactor(alt))

\* translating, unioning or hulling the footprint of row raises
GeometryRaises(row) == row.geom_type \in {"Polygon", "MultiPolygon"} /\ ~row.valid

\* the loop over the rows reaches a footprint that raises; nothing in
\* calculate_shadows catches it
GeometryError(rows, alt) == alt > 0 /\ \E i \in 1..Len(rows) : GeometryRaises(rows[i])

\* scale_factor before it is assigned, and holding v
Unassigned == [set |-> FALSE, milli |-> 0]

Assigned(v) == [set |-> TRUE, milli |-> v]

\* ----------------------------------------------------- compute_routes_v2
compute_routes_v2(resp) == IF resp.status # 200 THEN <<>> ELSE resp.routes

\* --------------------------------------------------- analyze_routes: step
ShadowMultipoly(shs) == IF shs # <<>> THEN UnaryUnion(shs) ELSE {}

\* mutant of RainNear: a station at exactly the proximity distance counts
RainNearInclusive(line, points) ==
    \E i \in 1..Len(points) : Distance(line, points[i]) <= RAIN_PROXIMITY_METERS

\* min_dist < RAIN_PROXIMITY_METERS for a non-empty list of raining points
RainNear(line, points) ==
    /\ points # <<>>
    /\ \E i \in 1..Len(points) :
          /\ \A j \in 1..Len(points) : Distance(line, points[i]) <= Distance(line, points[j])
          /\ Distance(line, points[i]) < RAIN_PROXIMITY_METERS

\* mutant of RainFlag: the flag follows the step at hand
RainFlagOfStep(flag, line, points) == RainNear(line, points)

\* is_rain_likely after the rain check of a step
RainFlag(flag, line, points) == flag \/ RainNear(line, points)

\* indices of the shelters intersecting the line (precise_matches)
PreciseMatches(gdf, line) ==
    IF gdf = None THEN {}
    ELSE {i \in 1..Len(gdf) : ShelterIntersects(line, gdf[i])}

\* unary_union of the matching shelters
ShelterUnion(gdf, matches) == UNION {UnaryUnion(gdf[i].parts) : i \in matches}

ShelteredLen(gdf, line) ==
    LET m == PreciseMatches(gdf, line)
    IN IF m # {} THEN IntersectionLength(line, ShelterUnion(gdf, m)) ELSE 0

\* encode_polyline of one LineString piece: its end points
EncodeLine(run) == [points |-> <<run[1], run[2]>>]

\* the encoded pieces of the shelter intersection a step adds for display
StepSegments(gdf, step) ==
    LET m == PreciseMatches(gdf, step.line)
        runs == Runs(IntersectionCells(step.line, ShelterUnion(gdf, m)))
    IN IF m # {} /\ step.travelMode = "WALK"
       THEN [i \in 1..Len(runs) |-> EncodeLine(runs[i])]
       ELSE <<>>

\* shelters within the buffer of a walking step, looked up only when rain is likely
NearbyIndices(gdf, step, rain) ==
    IF gdf # None /\ rain /\ step.travelMode = "WALK"
    THEN {i \in 1..Len(gdf) : BufferIntersects(step.line, NEARBY_BUFFER_METERS, gdf[i])}
    ELSE {}

\* mutant of EffectiveProtection: the shadow is left out
ProtectionOfShelters(gdf, line, shadow) == ShelteredLen(gdf, line)

\* mutant of EffectiveProtection: shadow length plus shelter length
ProtectionSum(gdf, line, shadow) ==
    IntersectionLength(line, shadow) + ShelteredLen(gdf, line)

\* effective_protection_len: the line under shadow or shelter, overlap once
\* mutant of EffectiveProtection: the shelters are left out
ProtectionOfShadow(gdf, line, shadow) == IntersectionLength(line, shadow)

EffectiveProtection(gdf, line, shadow) ==
    LET m == PreciseMatches(gdf, line)
    IN IF gdf # None /\ m # {}
       THEN IntersectionLength(line, shadow \cup ShelterUnion(gdf, m))
       ELSE IntersectionLength(line, shadow)

StepRatio(effective, step_length) ==
    IF step_length > 0 THEN Div(effective, step_length) ELSE Zero

TotalsFields ==
    { "total_length_m", "total_shadow_length_m", "total_sheltered_length_m",
      "total_walk_length_m", "total_walk_shadow_length_m",
      "total_walk_sheltered_length_m" }

\* mutant of ZeroTotals: the accumulators keep what the previous route left
StaleTotals == totals

\* the accumulators of one route as the route loop starts
ZeroTotals ==
    [ total_length_m |-> 0,
      total_shadow_length_m |-> 0,
      total_sheltered_length_m |-> 0,
      total_walk_length_m |-> 0,
      total_walk_shadow_length_m |-> 0,
      total_walk_sheltered_length_m |-> 0 ]

AddStep(t, mode, step_length, effective, sheltered) ==
    LET w == (mode = "WALK")
    IN [ total_length_m |-> t.total_length_m + step_length,
         total_shadow_length_m |-> t.total_shadow_length_m + effective,
         total_sheltered_length_m |-> t.total_sheltered_length_m + sheltered,
         total_walk_length_m |-> t.total_walk_length_m + (IF w THEN step_length ELSE 0),
         total_walk_shadow_length_m |->
             t.total_walk_shadow_length_m + (IF w THEN effective ELSE 0),
         total_walk_sheltered_length_m |->
             t.total_walk_sheltered_length_m + (IF w THEN sheltered ELSE 0) ]

StepRecord(step, step_length, effective, sheltered) ==
    [ shadow_ratio |-> StepRatio(effective, step_length),
      length_m |-> step_length,
      shadow_length_m |-> effective,
      sheltered_length_m |-> sheltered,
      travel_mode |-> step.travelMode ]

\* a step without a usable line is passed over
Skipped(step) == step.polyline \in {"missing", "one"}

\* decode_polyline raises on the step's encoded line
Undecodable(step) == step.polyline = "bad"

\* ---------------------------------------------- analyze_routes: route end
\* exterior ring of one polygon of shelter i, encoded
EncodePolygon(i, part) == [shelter |-> i, part |-> part]

RECURSIVE EncodeParts(_, _, _)
\* a MultiPolygon appends every part twice
EncodeParts(i, n, k) ==
    IF k > n THEN <<>>
    ELSE <<EncodePolygon(i, k), EncodePolygon(i, k)>> \o EncodeParts(i, n, k + 1)

RECURSIVE EncodeShelters(_, _)
EncodeShelters(gdf, idxs) ==
    IF idxs = <<>> THEN <<>>
    ELSE LET i == Head(idxs)
         IN (IF gdf[i].type = "Polygon" THEN <<EncodePolygon(i, 1)>>
             ELSE EncodeParts(i, Len(gdf[i].parts), 1))
            \o EncodeShelters(gdf, Tail(idxs))

NearbyEncoded(gdf, indices) ==
    IF indices # {} /\ gdf # None THEN EncodeShelters(gdf, IntSetToSeq(indices)) ELSE <<>>

\* mutant of GateOutput: the shelter geometry is shown whatever the rain flag
NoGate(rain, encoded) == encoded

\* without rain nothing of the shelters is shown
GateOutput(rain, encoded) == IF ~rain THEN <<>> ELSE encoded

\* mutant of RouteRatio: the overall ratio, walking steps or not
OverallRatio(t) ==
    IF t.total_length_m > 0 THEN Div(t.total_shadow_length_m, t.total_length_m) ELSE Zero

RouteRatio(t) ==
    IF t.total_walk_length_m > 0
    THEN Div(t.total_walk_shadow_length_m, t.total_walk_length_m)
    ELSE IF t.total_length_m > 0
         THEN Div(t.total_shadow_length_m, t.total_length_m)
         ELSE Zero

\* mutant of ExposedDistance: taken over the steps of every travel mode
ExposedOverall(t) == t.total_length_m - t.total_shadow_length_m

ExposedDistance(t) ==
    IF t.total_walk_length_m > 0
    THEN t.total_walk_length_m - t.total_walk_shadow_length_m
    ELSE 0

\* mutant of ScoredRoute: a route with shelter geometry to show, which only
\* a rain-affected route has, is ranked as unprotected
ScoredRouteRainLast(route, t, analysis, segments, nearby) ==
    [ shadow_ratio |-> IF segments # <<>> \/ nearby # <<>> THEN Zero ELSE RouteRatio(t),
      shadow_length_m |-> t.total_shadow_length_m,
      sheltered_length_m |-> t.total_sheltered_length_m,
      total_length_m |-> t.total_length_m,
      exposed_distance_m |-> ExposedDistance(t),
      steps_analysis |-> analysis,
      sheltered_segments |-> segments,
      nearby_shelters |-> nearby,
      data |-> route ]

ScoredRoute(route, t, analysis, segments, nearby) ==
    [ shadow_ratio |-> RouteRatio(t),
      shadow_length_m |-> t.total_shadow_length_m,
      sheltered_length_m |-> t.total_sheltered_length_m,
      total_length_m |-> t.total_length_m,
      exposed_distance_m |-> ExposedDistance(t),
      steps_analysis |-> analysis,
      sheltered_segments |-> segments,
      nearby_shelters |-> nearby,
      data |-> route ]

\* ------------------------------------------------ analyze_routes: ranking
RECURSIVE InsertBeforeTies(_, _)
\* mutant of InsertDesc: x goes in front of the elements of equal ratio
InsertBeforeTies(s, x) ==
    IF s = <<>> THEN <<x>>
    ELSE IF ~RatioGT(Head(s).shadow_ratio, x.shadow_ratio)
         THEN <<x>> \o s
         ELSE <<Head(s)>> \o InsertBeforeTies(Tail(s), x)

RECURSIVE InsertDesc(_, _)
\* x goes behind every element whose ratio is not smaller than its own
InsertDesc(s, x) ==
    IF s = <<>> THEN <<x>>
    ELSE IF RatioGT(x.shadow_ratio, Head(s).shadow_ratio)
         THEN <<x>> \o s
         ELSE <<Head(s)>> \o InsertDesc(Tail(s), x)

\* mutant of SortDesc: the list is returned in the order it was built
NoSort(s) == s

RECURSIVE SortDesc(_)
\* list.sort(key = shadow_ratio, reverse = True): stable, descending
SortDesc(s) ==
    IF s = <<>> THEN <<>>
    ELSE InsertDesc(SortDesc(SubSeq(s, 1, Len(s) - 1)), s[Len(s)])

\* ---------------------------------------------------------- state machine
CurrentRoute == routes_data[ri]

CurrentSteps == Flatten(CurrentRoute.legs)

\* mutant of FreshScoredRoutes: the list of the previous call is kept
StaleScoredRoutes == scored_routes

\* scored_routes as a call starts
FreshScoredRoutes == <<>>

\* what a caller receives: nothing yet, None, or a list
Pending == [kind |-> "pending", value |-> <<>>]

ResultNone == [kind |-> "None", value |-> <<>>]

ResultList(l) == [kind |-> "list", value |-> l]

\* analyze_routes is called with routes and shadows the caller has in hand
Direct ==
    /\ entry = "analyze_routes"
    /\ prefer_shade = FALSE
    /\ buildings = <<>>
    /\ sun_altitude = 0
    /\ sun_azimuth = 90
    /\ pc = "idle"

LocalsInit ==
    /\ scale_factor = Unassigned
    /\ result = Pending
    /\ raining_points_3857 = <<>>
    /\ fetch_failed = FALSE
    /\ rain_response = NoResponse
    /\ ri = 1
    /\ si = 1
    /\ totals = [f \in TotalsFields |-> 0]
    /\ steps_analysis = <<>>
    /\ route_sheltered_segments = <<>>
    /\ nearby_shelters_indices = {}
    /\ is_rain_likely = FALSE
    /\ scored_routes = <<>>
    /\ returned = <<>>

\* the arguments and locals of an invocation of analyze_routes that has not
\* started
IdleFrame(routes, shs) ==
    [ routes_data |-> routes,
      shadows |-> shs,
      pc |-> "idle",
      raining_points_3857 |-> <<>>,
      fetch_failed |-> FALSE,
      rain_response |-> NoResponse,
      ri |-> 1,
      si |-> 1,
      totals |-> [f \in TotalsFields |-> 0],
      steps_analysis |-> <<>>,
      route_sheltered_segments |-> <<>>,
      nearby_shelters_indices |-> {},
      is_rain_likely |-> FALSE,
      scored_routes |-> <<>> ]

\* no second invocation is under way
Alone == suspended = IdleFrame(<<>>, <<>>)

\* ------------------------------------------ route cache and report table
\* the arguments of compute_routes_v2; intermediates is None (given FALSE) or
\* a list
RoutesRequest(origin, destination, intermediates, travel_mode) ==
    [origin |-> origin, destination |-> destination,
     intermediates |-> intermediates, travel_mode |-> travel_mode]

NoStops == [given |-> FALSE, points |-> <<>>]

Stops(points) == [given |-> TRUE, points |-> points]

RequestPool ==
    { RoutesRequest("SMU", "Museum", NoStops, "WALK"),
      RoutesRequest("SMU", "Museum", Stops(<<>>), "WALK"),
      RoutesRequest("SMU", "Museum", Stops(<<"Fort Canning">>), "WALK"),
      RoutesRequest("SMU", "Museum", NoStops, "TRANSIT") }

\* the request body: the mode-specific preferences follow from travelMode
\* and the fixed fields are the same in every payload; intermediates <<>>
\* stands for a payload without that key
Payload(req) ==
    [origin |-> req.origin, destination |-> req.destination,
     travelMode |-> req.travel_mode,
     intermediates |-> IF req.intermediates.given /\ req.intermediates.points # <<>>
                       THEN req.intermediates.points ELSE <<>>]

PayloadPool == { Payload(req) : req \in RequestPool }

\* a file of cache_data/: absent, or holding a route list
NoFile == [exists |-> FALSE, routes |-> <<>>]

CacheFile(routes) == [exists |-> TRUE, routes |-> routes]

\* what the Routes API answers in the cache runs
UpstreamResponses ==
    { r \in PlannerResponses :
         \/ r.routes = <<>>
         \/ r.routes[1] \in { Route(<<Leg(<<W01>>)>>), Route(<<Leg(<<W12>>)>>) } }

EmptyCache == [p \in PayloadPool |-> NoFile]

\* mutant of CacheAfter: the answer is saved whatever its status
CacheEveryResponse(cache, payload, resp) ==
    [cache EXCEPT ![payload] = CacheFile(compute_routes_v2(resp))]

\* cache_data/ after a request that found no file and got resp
CacheAfter(cache, payload, resp) ==
    IF resp.status # 200 THEN cache
    ELSE [cache EXCEPT ![payload] = CacheFile(compute_routes_v2(resp))]

\* one call of compute_routes_v2 as the log keeps it: posted tells whether
\* the Routes API was contacted, status is its answer (0 when not contacted)
RouteCall(payload, posted, status, out) ==
    [payload |-> payload, posted |-> posted, status |-> status, out |-> out]

\* a report row: an id not handed out yet ("new"), a stored row, or a
\* deleted one
NoRow == [state |-> "new", confirmations |-> 0, denials |-> 0]

Row(confirmations, denials) ==
    [state |-> "stored", confirmations |-> confirmations, denials |-> denials]

Gone == [state |-> "deleted", confirmations |-> 0, denials |-> 0]

ReportIds == 1..MaxReports

NoReports == [id \in ReportIds |-> NoRow]

\* the answer to a report request: status and the converted row
Reply(op, id, status, confirmations) ==
    [op |-> op, id |-> id, status |-> status, confirmations |-> confirmations]

NoReply == Reply("none", 0, 0, 0)

\* nothing cached, no report, no request yet
StoresIdle ==
    /\ cache_dir = EmptyCache
    /\ route_calls = <<>>
    /\ reports = NoReports
    /\ response = NoReply

Init ==
    /\ shelters_3857 \in ShelterSets
    /\ routes_data \in RouteLists(MaxRoutes)
    /\ shadows \in ShadowSets
    /\ Direct
    /\ LocalsInit
    /\ Alone
    /\ StoresIdle

\* analyze_routes is entered: the rainfall is fetched, the result list is empty
Call ==
    /\ pc = "idle"
    /\ Len(returned) < MaxCalls
    /\ \E resp \in RainResponses :
          /\ raining_points_3857' = fetch_rainfall(resp)
          /\ fetch_failed' = FetchFails(resp)
          /\ rain_response' = resp
    /\ scored_routes' = FreshScoredRoutes
    /\ ri' = 1
    /\ pc' = "route"
    /\ UNCHANGED << stores, suspended, caller, inputs, si, route_locals, returned >>

\* the outer loop takes the next route and resets its accumulators
RouteInit ==
    /\ pc = "route"
    /\ ri <= Len(routes_data)
    /\ totals' = ZeroTotals
    /\ steps_analysis' = <<>>
    /\ route_sheltered_segments' = <<>>
    /\ nearby_shelters_indices' = {}
    /\ is_rain_likely' = FALSE
    /\ si' = 1
    /\ pc' = "steps"
    /\ rain_response' = NoResponse
    /\ UNCHANGED << stores, suspended, caller, inputs, raining_points_3857, fetch_failed, ri, scored_routes, returned >>

\* a step without a line of two points: continue
SkipStep ==
    /\ pc = "steps"
    /\ si <= Len(CurrentSteps)
    /\ Skipped(CurrentSteps[si])
    /\ si' = si + 1
    /\ UNCHANGED << stores, suspended, caller, inputs, pc, raining_points_3857, fetch_failed, rain_response, ri,
                    route_locals, scored_routes, returned >>

\* the body of the step loop for one step
AnalyzeStep ==
    /\ pc = "steps"
    /\ si <= Len(CurrentSteps)
    /\ ~Skipped(CurrentSteps[si])
    /\ ~Undecodable(CurrentSteps[si])
    /\ LET step == CurrentSteps[si]
           step_length == LineLength(step.line)
           rain == RainFlag(is_rain_likely, step.line, raining_points_3857)
           sheltered_len == ShelteredLen(shelters_3857, step.line)
           effective == EffectiveProtection(shelters_3857, step.line,
                                            ShadowMultipoly(shadows))
       IN /\ is_rain_likely' = rain
          /\ route_sheltered_segments' =
                 route_sheltered_segments \o StepSegments(shelters_3857, step)
          /\ nearby_shelters_indices' =
                 nearby_shelters_indices \cup NearbyIndices(shelters_3857, step, rain)
          /\ totals' = AddStep(totals, step.travelMode, step_length, effective,
                               sheltered_len)
          /\ steps_analysis' =
                 Append(steps_analysis,
                        StepRecord(step, step_length, effective, sheltered_len))
    /\ si' = si + 1
    /\ UNCHANGED << stores, suspended, caller, inputs, pc, raining_points_3857, fetch_failed, rain_response, ri,
                    scored_routes, returned >>

\* decode_polyline raises and nothing catches it: the call ends without a
\* result
DecodeRaises ==
    /\ pc = "steps"
    /\ si <= Len(CurrentSteps)
    /\ Undecodable(CurrentSteps[si])
    /\ pc' = "raised"
    /\ UNCHANGED << stores, suspended, caller, inputs, raining_points_3857, fetch_failed, rain_response, ri, si,
                    route_locals, scored_routes, returned >>

\* after the last step: nearby shelters, gating, ratio, the scored record
RouteEnd ==
    /\ pc = "steps"
    /\ si > Len(CurrentSteps)
    /\ LET segments == GateOutput(is_rain_likely, route_sheltered_segments)
           nearby == GateOutput(is_rain_likely,
                                NearbyEncoded(shelters_3857, nearby_shelters_indices))
       IN /\ route_sheltered_segments' = segments
          /\ scored_routes' =
                 Append(scored_routes,
                        ScoredRoute(CurrentRoute, totals, steps_analysis, segments, nearby))
    /\ ri' = ri + 1
    /\ pc' = "route"
    /\ UNCHANGED << stores, suspended, caller, inputs, raining_points_3857, fetch_failed, rain_response, si, totals,
                    steps_analysis, nearby_shelters_indices, is_rain_likely, returned >>

\* after the last route: sort and return
Return ==
    /\ pc = "route"
    /\ ri > Len(routes_data)
    /\ scored_routes' = SortDesc(scored_routes)
    /\ returned' = Append(returned,
                          [ rain |-> raining_points_3857,
                            failed |-> fetch_failed,
                            out |-> SortDesc(scored_routes) ])
    /\ pc' = "idle"
    /\ rain_response' = NoResponse
    /\ UNCHANGED << stores, suspended, caller, inputs, raining_points_3857, fetch_failed, ri, si, route_locals >>

\* one invocation of analyze_routes
FirstCall == returned = <<>> /\ Call

Next ==
    \/ FirstCall
    \/ RouteInit
    \/ SkipStep
    \/ AnalyzeStep
    \/ DecodeRaises
    \/ RouteEnd
    \/ Return

Spec == Init /\ [][Next]_vars

\* analyze_routes invoked again and again on the same arguments
NextRepeat ==
    \/ Call
    \/ RouteInit
    \/ SkipStep
    \/ AnalyzeStep
    \/ DecodeRaises
    \/ RouteEnd
    \/ Return

\* the repeated calls are followed on the shorter route lists
InitRepeat == Init /\ Len(routes_data) < MaxRoutes

SpecRepeat == InitRepeat /\ [][NextRepeat]_vars

\* ------------------------------------- find_shadiest_path and get_routes
ShadePath == entry = "find_shadiest_path" \/ (entry = "get_routes" /\ prefer_shade)

\* mutant of NoResult: None from every caller
NoResultNone(e) == ResultNone

\* what a caller returns when it has no routes to score
NoResult(e) == IF e = "find_shadiest_path" THEN ResultNone ELSE ResultList(<<>>)

\* routes = compute_routes_v2(...)
ComputeRoutes ==
    /\ pc = "entry"
    /\ \E resp \in PlannerResponses : routes_data' = compute_routes_v2(resp)
    /\ pc' = "planned"
    /\ UNCHANGED << stores, suspended, caller, shelters_3857, shadows, raining_points_3857, fetch_failed,
                    rain_response, ri, si, route_locals, scored_routes, returned >>

\* if not routes: return
NoRoutes ==
    /\ pc = "planned"
    /\ routes_data = <<>>
    /\ result' = NoResult(entry)
    /\ pc' = "done"
    /\ UNCHANGED << stores, suspended, entry, prefer_shade, buildings, sun_altitude, sun_azimuth,
                    scale_factor, inputs, raining_points_3857, fetch_failed,
                    rain_response, ri, si, route_locals, scored_routes, returned >>

\* get_routes without shade preference: analyze_routes(routes, [])
PlainAnalysis ==
    /\ pc = "planned"
    /\ routes_data # <<>>
    /\ ~ShadePath
    /\ shadows' = <<>>
    /\ pc' = "idle"
    /\ UNCHANGED << stores, suspended, caller, shelters_3857, routes_data, raining_points_3857,
                    fetch_failed, rain_response, ri, si, route_locals, scored_routes,
                    returned >>

\* routes[0]['legs'][0] raises IndexError: no start location
NoStartLocation ==
    /\ pc = "planned"
    /\ routes_data # <<>>
    /\ ShadePath
    /\ routes_data[1].legs = <<>>
    /\ result' = NoResult(entry)
    /\ pc' = "done"
    /\ UNCHANGED << stores, suspended, entry, prefer_shade, buildings, sun_altitude, sun_azimuth,
                    scale_factor, inputs, raining_points_3857, fetch_failed,
                    rain_response, ri, si, route_locals, scored_routes, returned >>

\* buildings, sun position, shadows = calculate_shadows(buildings, az, alt)
CalculateShadows ==
    /\ pc = "planned"
    /\ routes_data # <<>>
    /\ ShadePath
    /\ routes_data[1].legs # <<>>
    /\ ~GeometryError(buildings, sun_altitude)
    /\ shadows' = calculate_shadows(buildings, sun_azimuth, sun_altitude)
    /\ scale_factor' = IF sun_altitude <= 0 THEN Unassigned
                       ELSE Assigned(ScaleFactor(sun_altitude))
    /\ pc' = "idle"
    /\ UNCHANGED << stores, suspended, entry, prefer_shade, buildings, sun_altitude, sun_azimuth, result,
                    shelters_3857, routes_data, raining_points_3857, fetch_failed,
                    rain_response, ri, si, route_locals, scored_routes, returned >>

\* calculate_shadows raises on a footprint: the exception leaves the caller,
\* no shadow list is returned
ShadowsRaise ==
    /\ pc = "planned"
    /\ routes_data # <<>>
    /\ ShadePath
    /\ routes_data[1].legs # <<>>
    /\ GeometryError(buildings, sun_altitude)
    /\ scale_factor' = Assigned(ScaleFactor(sun_altitude))
    /\ pc' = "shadows_raised"
    /\ UNCHANGED << stores, suspended, entry, prefer_shade, buildings, sun_altitude, sun_azimuth, result,
                    inputs, raining_points_3857, fetch_failed,
                    rain_response, ri, si, route_locals, scored_routes, returned >>

\* the caller hands on what analyze_routes returned
PathReturn ==
    /\ pc = "idle"
    /\ returned # <<>>
    /\ result' = ResultList(returned[Len(returned)].out)
    /\ pc' = "done"
    /\ UNCHANGED << stores, suspended, entry, prefer_shade, buildings, sun_altitude, sun_azimuth,
                    scale_factor, inputs, raining_points_3857, fetch_failed,
                    rain_response, ri, si, route_locals, scored_routes, returned >>

NextPath ==
    \/ ComputeRoutes
    \/ NoRoutes
    \/ PlainAnalysis
    \/ NoStartLocation
    \/ CalculateShadows
    \/ ShadowsRaise
    \/ FirstCall
    \/ RouteInit
    \/ SkipStep
    \/ AnalyzeStep
    \/ DecodeRaises
    \/ RouteEnd
    \/ Return
    \/ PathReturn

\* a caller starts: analyze_routes itself on the shorter route lists, or one
\* of the two functions that fetch the routes first
InitPath ==
    /\ shelters_3857 \in ShelterSets
    /\ LocalsInit
    /\ Alone
    /\ StoresIdle
    /\ \/ /\ Direct
          /\ routes_data \in RouteLists(MaxRoutes - 1)
          /\ shadows \in ShadowSets
       \/ /\ entry \in {"find_shadiest_path", "get_routes"}
          /\ prefer_shade \in (IF entry = "get_routes" THEN BOOLEAN ELSE {FALSE})
          /\ buildings \in BuildingSets
          /\ sun_altitude \in AltitudePool
          /\ sun_azimuth \in AzimuthPool
          /\ Aligned(buildings, sun_azimuth, sun_altitude)
          /\ routes_data = <<>>
          /\ shadows = <<>>
          /\ pc = "entry"

SpecPath == InitPath /\ [][NextPath]_vars

\* ------------------------------- two invocations on the same SunRouter
\* the arguments and locals of the invocation that is running
Running ==
    [ routes_data |-> routes_data,
      shadows |-> shadows,
      pc |-> pc,
      raining_points_3857 |-> raining_points_3857,
      fetch_failed |-> fetch_failed,
      rain_response |-> rain_response,
      ri |-> ri,
      si |-> si,
      totals |-> totals,
      steps_analysis |-> steps_analysis,
      route_sheltered_segments |-> route_sheltered_segments,
      nearby_shelters_indices |-> nearby_shelters_indices,
      is_rain_likely |-> is_rain_likely,
      scored_routes |-> scored_routes ]

\* mutant of Resume: the rain flag is an attribute of the SunRouter
ResumeSharingFlag(f) == [f EXCEPT !.is_rain_likely = is_rain_likely]

\* what the resumed invocation finds in its arguments and locals
Resume(f) == f

\* the scheduler suspends the running invocation between two of its steps
\* and resumes the other one
Switch ==
    /\ LET f == Resume(suspended)
       IN /\ routes_data' = f.routes_data
          /\ shadows' = f.shadows
          /\ pc' = f.pc
          /\ raining_points_3857' = f.raining_points_3857
          /\ fetch_failed' = f.fetch_failed
          /\ rain_response' = f.rain_response
          /\ ri' = f.ri
          /\ si' = f.si
          /\ totals' = f.totals
          /\ steps_analysis' = f.steps_analysis
          /\ route_sheltered_segments' = f.route_sheltered_segments
          /\ nearby_shelters_indices' = f.nearby_shelters_indices
          /\ is_rain_likely' = f.is_rain_likely
          /\ scored_routes' = f.scored_routes
    /\ suspended' = Running
    /\ UNCHANGED << stores, caller, shelters_3857, returned >>

\* each of the two invocations is made once
CallOnce == ri = 1 /\ Call

NextConcurrent ==
    \/ CallOnce
    \/ RouteInit
    \/ SkipStep
    \/ AnalyzeStep
    \/ DecodeRaises
    \/ RouteEnd
    \/ Return
    \/ Switch

\* the routes of the first invocation: one route
SingleRoutes == { <<r>> : r \in RoutePool }

\* the second invocation: a walk of two legs among shadows
OtherCall == IdleFrame(<<Route(<<Leg(<<W23>>), Leg(<<W01>>)>>)>>, <<Poly(0, 1), Poly(2, 3)>>)

InitConcurrent ==
    /\ shelters_3857 \in ShelterSets
    /\ routes_data \in SingleRoutes
    /\ shadows \in ShadowSets
    /\ Direct
    /\ LocalsInit
    /\ suspended = OtherCall
    /\ StoresIdle

SpecConcurrent == InitConcurrent /\ [][NextConcurrent]_vars

\* -------------------------------------------- compute_routes_v2: cache
\* no route analysis is under way
Parked ==
    /\ shelters_3857 = None
    /\ routes_data = <<>>
    /\ shadows = <<>>
    /\ Direct
    /\ LocalsInit
    /\ Alone

\* one call of compute_routes_v2: the cached list if the file of the payload
\* exists, else the request, the answer, and the file written for a 200
compute_routes ==
    /\ Len(route_calls) < MaxRouteCalls
    /\ \E req \in RequestPool, resp \in UpstreamResponses :
          LET payload == Payload(req)
          IN IF cache_dir[payload].exists
             THEN /\ route_calls' = Append(route_calls,
                                           RouteCall(payload, FALSE, 0,
                                                     cache_dir[payload].routes))
                  /\ UNCHANGED cache_dir
             ELSE /\ route_calls' = Append(route_calls,
                                           RouteCall(payload, TRUE, resp.status,
                                                     compute_routes_v2(resp)))
                  /\ cache_dir' = CacheAfter(cache_dir, payload, resp)
    /\ UNCHANGED << reports, response, suspended, caller, inputs, pc, raining_points_3857,
                    fetch_failed, rain_response, ri, si, route_locals, scored_routes,
                    returned >>

NextCache == compute_routes

\* cache_data/ is empty or holds a file of an earlier run
InitCache ==
    /\ Parked
    /\ \E p \in PayloadPool, resp \in UpstreamResponses :
          cache_dir \in { EmptyCache, CacheAfter(EmptyCache, p, resp) }
    /\ route_calls = <<>>
    /\ reports = NoReports
    /\ response = NoReply

SpecCache == InitCache /\ [][NextCache]_vars

\* ------------------------------------------------- main.py: report table
\* mutant of DenyDeletes: a report is kept until its count is below 0
DenyDeletesBelowZero(confirmations) == confirmations < 0

\* deny_report deletes the row
DenyDeletes(confirmations) == confirmations <= 0

\* POST /reports: a row under a fresh uuid, confirmations and denials by the
\* column defaults; coordinates of fewer than two numbers raise IndexError
\* before anything is added
create_report ==
    /\ \E id \in ReportIds, coordinates \in {1, 2} :
          /\ reports[id].state = "new"
          /\ IF coordinates < 2
             THEN /\ response' = Reply("create", 0, 500, 0)
                  /\ UNCHANGED reports
             ELSE /\ reports' = [reports EXCEPT ![id] = Row(1, 0)]
                  /\ response' = Reply("create", id, 200, 1)
    /\ UNCHANGED << cache_dir, route_calls, suspended, caller, inputs, pc,
                    raining_points_3857, fetch_failed, rain_response, ri, si,
                    route_locals, scored_routes, returned >>

\* POST /reports/{report_id}/confirm
confirm_report ==
    /\ \E id \in ReportIds :
          IF reports[id].state # "stored"
          THEN /\ response' = Reply("confirm", id, 404, 0)
               /\ UNCHANGED reports
          ELSE /\ reports[id].confirmations < MaxConfirmations
               /\ reports' = [reports EXCEPT ![id].confirmations = @ + 1]
               /\ response' = Reply("confirm", id, 200, reports[id].confirmations + 1)
    /\ UNCHANGED << cache_dir, route_calls, suspended, caller, inputs, pc,
                    raining_points_3857, fetch_failed, rain_response, ri, si,
                    route_locals, scored_routes, returned >>

\* POST /reports/{report_id}/deny
deny_report ==
    /\ \E id \in ReportIds :
          IF reports[id].state # "stored"
          THEN /\ response' = Reply("deny", id, 404, 0)
               /\ UNCHANGED reports
          ELSE LET confirmations == reports[id].confirmations - 1
               IN /\ reports' = [reports EXCEPT
                                   ![id] = IF DenyDeletes(confirmations) THEN Gone
                                           ELSE Row(confirmations, @.denials)]
                  /\ response' = Reply("deny", id, 200, confirmations)
    /\ UNCHANGED << cache_dir, route_calls, suspended, caller, inputs, pc,
                    raining_points_3857, fetch_failed, rain_response, ri, si,
                    route_locals, scored_routes, returned >>

NextReports ==
    \/ create_report
    \/ confirm_report
    \/ deny_report

\* the table is empty
InitReports ==
    /\ Parked
    /\ StoresIdle

SpecReports == InitReports /\ [][NextReports]_vars

\* ================================================================ claims
\* the route whose record RouteEnd appended last, and that record
JustScored == pc = "route" /\ ri > 1

LastScored == scored_routes[Len(scored_routes)]

\* the step loop of the current route has run to its end
LoopEnded == pc = "steps" /\ si > Len(CurrentSteps)

RECURSIVE SeqSum(_)
SeqSum(s) == IF s = <<>> THEN 0 ELSE Head(s) + SeqSum(Tail(s))

\* sums over the steps_analysis entries a of one route: all entries, or the
\* walking ones only
SumLength(a, walk) ==
    SeqSum([k \in 1..Len(a) |->
               IF walk => a[k].travel_mode = "WALK" THEN a[k].length_m ELSE 0])

SumProtected(a, walk) ==
    SeqSum([k \in 1..Len(a) |->
               IF walk => a[k].travel_mode = "WALK" THEN a[k].shadow_length_m ELSE 0])

SumSheltered(a) == SeqSum([k \in 1..Len(a) |-> a[k].sheltered_length_m])

\* a fraction between 0 and 1
UnitRatio(r) == r[2] > 0 /\ 0 <= r[1] /\ r[1] <= r[2]

IsAnalysed(step) == ~Skipped(step) /\ ~Undecodable(step)

\* the steps of a route that the loop analyses, in order
AnalysedSteps(route) == SelectSeq(Flatten(route.legs), IsAnalysed)

Bijections(n) == {p \in [1..n -> 1..n] : \A i, j \in 1..n : p[i] = p[j] => i = j}

\* C1: the list analyze_routes returns is ordered by non-increasing
\* shadow_ratio: no route is followed by one of a greater ratio.
C1_SortedDescending ==
    \A c \in 1..Len(returned) :
        LET out == returned[c].out
        IN \A i \in 1..(Len(out) - 1) :
              ~RatioGT(out[i + 1].shadow_ratio, out[i].shadow_ratio)

\* a call returned two routes that had to change places: the second input
\* route has the greater ratio and comes first
C1_Witness ==
    /\ Len(returned) = 1
    /\ Len(returned[1].out) = 2
    /\ RatioGT(returned[1].out[1].shadow_ratio, returned[1].out[2].shadow_ratio)
    /\ returned[1].out[1].data = routes_data[2]
    /\ returned[1].out[2].data = routes_data[1]
    /\ routes_data[1] # routes_data[2]

\* C2: the ranking is stable and loses nothing: the returned list holds one
\* record per input route, and routes of equal shadow_ratio keep the order
\* they have in routes_data.
C2_StablePermutation ==
    \A c \in 1..Len(returned) :
        LET out == returned[c].out
        IN /\ Len(out) = Len(routes_data)
           /\ \E p \in Bijections(Len(out)) :
                 /\ \A i \in 1..Len(out) : out[i].data = routes_data[p[i]]
                 /\ \A i, j \in 1..Len(out) :
                       (i < j /\ out[i].shadow_ratio = out[j].shadow_ratio)
                           => p[i] < p[j]

\* a call returned two different routes of equal ratio, in input order
C2_Witness ==
    /\ Len(returned) = 1
    /\ Len(returned[1].out) = 2
    /\ returned[1].out[1].shadow_ratio = returned[1].out[2].shadow_ratio
    /\ returned[1].out[1].data # returned[1].out[2].data
    /\ returned[1].out[1].data = routes_data[1]

\* C3: a route whose rain flag is false when its step loop ends is scored
\* with empty sheltered_segments and empty nearby_shelters, whatever the loop
\* collected.
C3_NoRainNoShelterOutput ==
    (JustScored /\ ~is_rain_likely)
        => /\ LastScored.sheltered_segments = <<>>
           /\ LastScored.nearby_shelters = <<>>

\* a route without rain was scored although one of its walking steps runs
\* under a shelter, so that a segment had been collected for it
C3_Witness ==
    /\ JustScored
    /\ ~is_rain_likely
    /\ \E k \in 1..Len(LastScored.steps_analysis) :
          /\ LastScored.steps_analysis[k].travel_mode = "WALK"
          /\ LastScored.steps_analysis[k].sheltered_length_m > 0
    /\ LastScored.sheltered_segments = <<>>

\* C4: a route's shadow_ratio is the walk-only ratio (protection over length
\* of the WALK steps) when the walk-only length is positive, otherwise the
\* overall ratio, and 0 when both lengths are 0.
C4_RatioPolicy ==
    \A i \in 1..Len(scored_routes) :
        LET r == scored_routes[i]
            a == r.steps_analysis
        IN r.shadow_ratio =
              IF SumLength(a, TRUE) > 0
              THEN Div(SumProtected(a, TRUE), SumLength(a, TRUE))
              ELSE IF SumLength(a, FALSE) > 0
                   THEN Div(SumProtected(a, FALSE), SumLength(a, FALSE))
                   ELSE Zero

\* a scored route with walking and other steps whose walk-only ratio differs
\* from its overall ratio
C4_Witness ==
    \E i \in 1..Len(scored_routes) :
        LET r == scored_routes[i]
            a == r.steps_analysis
        IN /\ SumLength(a, TRUE) > 0
           /\ SumLength(a, FALSE) > SumLength(a, TRUE)
           /\ r.shadow_ratio = Div(SumProtected(a, TRUE), SumLength(a, TRUE))
           /\ r.shadow_ratio # Div(SumProtected(a, FALSE), SumLength(a, FALSE))

\* C5: every analysed step has 0 <= protection <= its length and a ratio in
\* [0, 1] equal to protection / length (0 for a step of length 0); every
\* route has shadow_length_m <= total_length_m and a shadow_ratio in [0, 1].
C5_StepEntryOK(e) ==
    /\ 0 <= e.shadow_length_m
    /\ e.shadow_length_m <= e.length_m
    /\ UnitRatio(e.shadow_ratio)
    /\ e.shadow_ratio = IF e.length_m > 0 THEN Div(e.shadow_length_m, e.length_m) ELSE Zero

C5_ProtectionBounded ==
    /\ \A k \in 1..Len(steps_analysis) : C5_StepEntryOK(steps_analysis[k])
    /\ \A i \in 1..Len(scored_routes) :
          LET r == scored_routes[i]
          IN /\ \A k \in 1..Len(r.steps_analysis) : C5_StepEntryOK(r.steps_analysis[k])
             /\ r.shadow_length_m <= r.total_length_m
             /\ UnitRatio(r.shadow_ratio)

\* a scored route with a step that lies both in shadow and under a shelter
\* over its whole length, and a step of length 0
C5_Witness ==
    /\ shadows # <<>>
    /\ \E i \in 1..Len(scored_routes) :
          \E k \in 1..Len(scored_routes[i].steps_analysis) :
              LET e == scored_routes[i].steps_analysis[k]
              IN /\ e.length_m > 0
                 /\ e.sheltered_length_m = e.length_m
                 /\ IntersectionLength(AnalysedSteps(scored_routes[i].data)[k].line,
                                       ShadowMultipoly(shadows)) = e.length_m
                 /\ e.shadow_length_m = e.length_m
    /\ \E i \in 1..Len(scored_routes) :
          \E k \in 1..Len(scored_routes[i].steps_analysis) :
              scored_routes[i].steps_analysis[k].length_m = 0

\* C6: a scored route's total_length_m, shadow_length_m and
\* sheltered_length_m are the sums of length_m, shadow_length_m and
\* sheltered_length_m over its own steps_analysis, nothing carried over from
\* the route before.
C6_TotalsAreSums ==
    \A i \in 1..Len(scored_routes) :
        LET r == scored_routes[i]
        IN /\ r.total_length_m = SumLength(r.steps_analysis, FALSE)
           /\ r.shadow_length_m = SumProtected(r.steps_analysis, FALSE)
           /\ r.sheltered_length_m = SumSheltered(r.steps_analysis)

\* the second route of a call was scored, it has steps in two legs, and the
\* route before it left all three totals positive
C6_Witness ==
    /\ JustScored
    /\ ri = 3
    /\ scored_routes[1].total_length_m > 0
    /\ scored_routes[1].shadow_length_m > 0
    /\ scored_routes[1].sheltered_length_m > 0
    /\ Len(scored_routes[2].data.legs) = 2
    /\ Len(scored_routes[2].steps_analysis) = 2
    /\ scored_routes[2].total_length_m > 0

\* C7 as stated: two invocations on the same routes, shadows and shelter
\* dataset return the same list, whatever else happened in between.
C7_SameArgumentsSameOutput ==
    \A c1, c2 \in 1..Len(returned) : returned[c1].out = returned[c2].out

\* C7, amended: two invocations on the same routes, shadows and shelter
\* dataset whose rainfall fetches yield the same raining stations return the
\* same list; nothing the first invocation wrote reaches the second.
C7_SameRainSameOutput ==
    \A c1, c2 \in 1..Len(returned) :
        returned[c1].rain = returned[c2].rain => returned[c1].out = returned[c2].out

\* two finished invocations both fetched the same raining station, and the
\* route they scored shows nearby shelters
C7_Witness ==
    /\ Len(returned) = 2
    /\ returned[1].rain = returned[2].rain
    /\ returned[1].rain # <<>>
    /\ Len(returned[2].out) = 1
    /\ returned[2].out[1].nearby_shelters # <<>>

\* the scenario of C8 for a scored route r: 1000 m in all, exactly one WALK
\* step, of 500 m and wholly in shadow, the other steps neither shaded nor
\* sheltered
C8_Scenario(r) ==
    LET a == r.steps_analysis
        steps == AnalysedSteps(r.data)
    IN /\ r.total_length_m = 1000
       /\ \E k \in 1..Len(a) :
             /\ a[k].travel_mode = "WALK"
             /\ a[k].length_m = 500
             /\ IntersectionLength(steps[k].line, ShadowMultipoly(shadows)) = 500
             /\ \A j \in 1..Len(a) :
                   j # k => /\ a[j].travel_mode # "WALK"
                            /\ a[j].shadow_length_m = 0
                            /\ a[j].sheltered_length_m = 0

\* C8 as stated: in that scenario the route's shadow_ratio is 0.5.
C8_RatioIsHalf ==
    \A i \in 1..Len(scored_routes) :
        C8_Scenario(scored_routes[i]) => scored_routes[i].shadow_ratio = <<1, 2>>

\* C8, amended: in that scenario the route's shadow_ratio is the walk-only
\* ratio 500 / 500 = 1; it is shadow_length_m / total_length_m that is 0.5.
C8_RatioIsWalkOnly ==
    \A i \in 1..Len(scored_routes) :
        C8_Scenario(scored_routes[i])
            => /\ scored_routes[i].shadow_ratio = <<1, 1>>
               /\ 2 * scored_routes[i].shadow_length_m = scored_routes[i].total_length_m

\* a route of the scenario was scored
C8_Witness ==
    \E i \in 1..Len(scored_routes) :
        /\ C8_Scenario(scored_routes[i])
        /\ Len(scored_routes[i].steps_analysis) = 2

\* C9: when the step loop of a route ends, is_rain_likely is true exactly
\* when some analysed step of the route, of any travel mode, is less than
\* 5000 m from some raining station; without raining stations it is false.
C9_RainFlag ==
    /\ LoopEnded =>
          (is_rain_likely <=>
              \E k \in 1..Len(CurrentSteps) :
                  /\ ~Skipped(CurrentSteps[k])
                  /\ \E j \in 1..Len(raining_points_3857) :
                        Distance(CurrentSteps[k].line, raining_points_3857[j])
                            < RAIN_PROXIMITY_METERS)
    /\ (pc = "steps" /\ raining_points_3857 = <<>>) => ~is_rain_likely

\* the loop of a route without walking steps ended with the flag set
C9_Witness ==
    /\ LoopEnded
    /\ is_rain_likely
    /\ steps_analysis # <<>>
    /\ \A k \in 1..Len(steps_analysis) : steps_analysis[k].travel_mode # "WALK"

\* C10: when the rainfall fetch fails, fetch_rainfall yields no station, the
\* call goes on to score every route (it stops only where it stops whatever
\* the fetch did, at a step line that cannot be decoded), no route is
\* rain-affected and every record has empty sheltered_segments and
\* nearby_shelters.
C10_FailOpen ==
    fetch_failed =>
        /\ raining_points_3857 = <<>>
        /\ ~is_rain_likely
        /\ pc = "raised" => Undecodable(CurrentSteps[si])
        /\ (pc \notin {"idle", "raised"} /\ ~ENABLED DecodeRaises)
              => ENABLED (RouteInit \/ SkipStep \/ AnalyzeStep \/ RouteEnd \/ Return)
        /\ \A i \in 1..Len(scored_routes) :
              /\ scored_routes[i].sheltered_segments = <<>>
              /\ scored_routes[i].nearby_shelters = <<>>
        /\ \A c \in 1..Len(returned) :
              /\ returned[c].failed
              /\ Len(returned[c].out) = Len(routes_data)

\* a call whose fetch failed returned two records, one of a route with a
\* sheltered walking step
C10_Witness ==
    /\ Len(returned) = 1
    /\ returned[1].failed
    /\ shelters_3857 # None
    /\ Len(returned[1].out) = 2
    /\ \E i \in 1..2 :
          \E k \in 1..Len(returned[1].out[i].steps_analysis) :
              /\ returned[1].out[i].steps_analysis[k].travel_mode = "WALK"
              /\ returned[1].out[i].steps_analysis[k].sheltered_length_m > 0

\* ---- C11: the two hardcoded stations
\* the rainfall response has been read by this call and its result is in hand
Fetched == pc = "route" /\ ri = 1 /\ rain_response.kind = "ok"

C11_Hardcoded(r) == r.stationId \in {"S81", "S203"}

C11_Positive(r) == C11_Hardcoded(r) \/ (r.numeric /\ r.value > 0)

C11_Listed(r) == r.known /\ C11_Positive(r)

C11_Unreadable(r) == ~C11_Hardcoded(r) /\ ~r.numeric

C12_EntryShadowOnly(e, step) ==
    /\ e.sheltered_length_m = 0
    /\ e.shadow_length_m = IntersectionLength(step.line, ShadowMultipoly(shadows))

\* C12: when the shelter dataset did not load (shelters_3857 is None) every
\* step has sheltered_length_m 0 and a protection equal to the length of its
\* line in shadow, and every route has empty sheltered_segments and
\* nearby_shelters, whatever the rain.
C12_ShadowOnlyWithoutShelters ==
    shelters_3857 = None =>
        /\ pc = "steps" =>
              /\ route_sheltered_segments = <<>>
              /\ nearby_shelters_indices = {}
              /\ \A k \in 1..Len(steps_analysis) :
                    C12_EntryShadowOnly(steps_analysis[k], AnalysedSteps(CurrentRoute)[k])
        /\ \A i \in 1..Len(scored_routes) :
              LET r == scored_routes[i]
              IN /\ r.sheltered_segments = <<>>
                 /\ r.nearby_shelters = <<>>
                 /\ r.sheltered_length_m = 0
                 /\ Len(r.steps_analysis) = Len(AnalysedSteps(r.data))
                 /\ \A k \in 1..Len(r.steps_analysis) :
                       C12_EntryShadowOnly(r.steps_analysis[k], AnalysedSteps(r.data)[k])

\* without a dataset a rain-affected route with a shaded walking step was
\* scored
C12_Witness ==
    /\ shelters_3857 = None
    /\ JustScored
    /\ is_rain_likely
    /\ \E k \in 1..Len(LastScored.steps_analysis) :
          /\ LastScored.steps_analysis[k].travel_mode = "WALK"
          /\ LastScored.steps_analysis[k].shadow_length_m > 0
    /\ LastScored.sheltered_segments = <<>>

\* ---- C13: steps without a usable line
\* C13 (as stated): a step whose line is missing, cannot be decoded or has
\* fewer than two points leaves no entry in steps_analysis and does not end
\* the call: every scored route has exactly the entries of its steps with a
\* usable line, and the call never ends in an exception.
C13_UnusableLineSkipped ==
    /\ pc # "raised"
    /\ \A i \in 1..Len(scored_routes) :
          LET r == scored_routes[i]
              steps == AnalysedSteps(r.data)
          IN /\ Len(r.steps_analysis) = Len(steps)
             /\ \A k \in 1..Len(steps) :
                   /\ r.steps_analysis[k].length_m = LineLength(steps[k].line)
                   /\ r.steps_analysis[k].travel_mode = steps[k].travelMode

\* ---- C14: no shadows for a sun at or below the horizon
\* the caller computed the shadows and handed them to analyze_routes
Calculated ==
    /\ ShadePath
    /\ pc \in {"idle", "route", "steps", "raised"} \/ (pc = "done" /\ returned # <<>>)

\* the entry e of step takes its protection from the shelters alone
C14_EntryShelterOnly(e, step) ==
    /\ e.shadow_length_m = e.sheltered_length_m
    /\ PreciseMatches(shelters_3857, step.line) = {} => e.shadow_ratio = Zero

\* C14: for a sun altitude <= 0 calculate_shadows returns the empty list
\* whatever the buildings, and then every step's protection is its
\* sheltered length, so that a step no shelter intersects has ratio 0.
C14_NoShadowsAtNight ==
    (Calculated /\ sun_altitude <= 0) =>
        /\ shadows = <<>>
        /\ pc = "steps" =>
              \A k \in 1..Len(steps_analysis) :
                  C14_EntryShelterOnly(steps_analysis[k], AnalysedSteps(CurrentRoute)[k])
        /\ \A i \in 1..Len(scored_routes) :
              \A k \in 1..Len(scored_routes[i].steps_analysis) :
                  C14_EntryShelterOnly(scored_routes[i].steps_analysis[k],
                                       AnalysedSteps(scored_routes[i].data)[k])

\* at night, with buildings around, a caller received a route with a
\* sheltered step and a step of ratio 0
C14_Witness ==
    /\ Calculated
    /\ sun_altitude <= 0
    /\ buildings # <<>>
    /\ pc = "done"
    /\ \E k, j \in 1..Len(result.value[1].steps_analysis) :
          /\ result.value[1].steps_analysis[k].sheltered_length_m > 0
          /\ result.value[1].steps_analysis[j].length_m > 0
          /\ result.value[1].steps_analysis[j].shadow_ratio = Zero

\* ---- C15: no routes
\* C15 (as stated): analyze_routes on an empty list, and find_shadiest_path
\* and get_routes when the planner returns no routes, yield an empty list.
C15_NoRoutesEmptyList ==
    (pc = "done" /\ routes_data = <<>>) => result = ResultList(<<>>)

\* C15 (amended): analyze_routes on an empty list returns an empty list and
\* so does get_routes when the planner returns no routes;
\* find_shadiest_path returns None.
C15_NoRoutesEmptyOrNone ==
    (pc = "done" /\ routes_data = <<>>) =>
        /\ entry \in {"analyze_routes", "get_routes"} => result = ResultList(<<>>)
        /\ entry = "find_shadiest_path" => result = ResultNone

\* find_shadiest_path came back from a planner without routes, and
\* analyze_routes was not called
C15_Witness ==
    /\ pc = "done"
    /\ routes_data = <<>>
    /\ entry = "find_shadiest_path"
    /\ returned = <<>>
    /\ result = ResultNone

\* ---- C18: the scale factor of the shadows
\* C18: for a sun altitude strictly between 0 and 1 degree the scale factor
\* is exactly 100, from 1 degree on it is 1 / tan(altitude), and it never
\* exceeds 100 for an altitude above 0.
C18_ScaleFactorCapped ==
    /\ (Calculated /\ sun_altitude > 0) => scale_factor.set
    /\ scale_factor.set =>
          /\ sun_altitude > 0
          /\ sun_altitude < 10 => scale_factor.milli = 100 * 1000
          /\ sun_altitude >= 10 => scale_factor.milli = CotMilli(sun_altitude)
          /\ scale_factor.milli <= 100 * 1000

\* shadows were cast with the sun half a degree above the horizon
C18_Witness ==
    /\ Calculated
    /\ sun_altitude = 5
    /\ scale_factor = Assigned(100 * 1000)
    /\ shadows # <<>>

\* ---- C16: exposed distance
\* C16: a route's exposed_distance_m is the length of its WALK steps minus
\* their protected length when that length is positive, else 0; it is never
\* negative and never more than the length of the WALK steps.
C16_ExposedDistance ==
    \A i \in 1..Len(scored_routes) :
        LET r == scored_routes[i]
            walk == SumLength(r.steps_analysis, TRUE)
            protected == SumProtected(r.steps_analysis, TRUE)
        IN /\ r.exposed_distance_m = IF walk > 0 THEN walk - protected ELSE 0
           /\ 0 <= r.exposed_distance_m
           /\ r.exposed_distance_m <= walk

\* a scored route whose walking is partly protected, and a scored route
\* without walking that is partly unprotected
C16_Witness ==
    /\ \E i \in 1..Len(scored_routes) :
          LET r == scored_routes[i]
          IN /\ 0 < r.exposed_distance_m
             /\ r.exposed_distance_m < SumLength(r.steps_analysis, TRUE)
    /\ \E i \in 1..Len(scored_routes) :
          /\ SumLength(scored_routes[i].steps_analysis, TRUE) = 0
          /\ scored_routes[i].total_length_m > scored_routes[i].shadow_length_m
          /\ scored_routes[i].exposed_distance_m = 0

\* ---- C19: shadow and shelter are united, not added
\* the cells of a line that lie in shadow or under a shelter meeting the line
C19_Covered(line) ==
    { c \in LineCells(line) :
         \/ c \in ShadowMultipoly(shadows)
         \/ /\ shelters_3857 # None
            /\ \E i \in PreciseMatches(shelters_3857, line) :
                  \E k \in 1..Len(shelters_3857[i].parts) :
                      /\ shelters_3857[i].parts[k].a <= c
                      /\ c < shelters_3857[i].parts[k].b }

C19_EntryIsUnion(e, step) ==
    LET shadow_len == IntersectionLength(step.line, ShadowMultipoly(shadows))
    IN /\ e.shadow_length_m = CellM * Cardinality(C19_Covered(step.line))
       /\ e.shadow_length_m >= Max(shadow_len, e.sheltered_length_m)
       /\ e.shadow_length_m <= shadow_len + e.sheltered_length_m

\* C19: a step's effective protection is the length of its line covered by
\* shadow or by a shelter that meets it, a stretch under both counted once:
\* it is at least the greater of shadow length and sheltered length and at
\* most their sum.
C19_UnionNotSum ==
    /\ pc = "steps" =>
          \A k \in 1..Len(steps_analysis) :
              C19_EntryIsUnion(steps_analysis[k], AnalysedSteps(CurrentRoute)[k])
    /\ \A i \in 1..Len(scored_routes) :
          \A k \in 1..Len(scored_routes[i].steps_analysis) :
              C19_EntryIsUnion(scored_routes[i].steps_analysis[k],
                               AnalysedSteps(scored_routes[i].data)[k])

\* a step was analysed that has a stretch both in shadow and under a
\* shelter and a stretch under neither
C19_Witness ==
    /\ pc = "steps"
    /\ \E k \in 1..Len(steps_analysis) :
          LET e == steps_analysis[k]
              line == AnalysedSteps(CurrentRoute)[k].line
          IN /\ e.sheltered_length_m > 0
             /\ IntersectionLength(line, ShadowMultipoly(shadows)) > 0
             /\ e.shadow_length_m
                    < IntersectionLength(line, ShadowMultipoly(shadows))
                         + e.sheltered_length_m
             /\ e.shadow_length_m < e.length_m

\* ---- C20: the rain flag within a route and between routes
\* C20: within the step loop of a route the rain flag, once true, stays
\* true for every later step of every leg, and each route starts its loop
\* with the flag false whatever the route before left.
C20_RainFlagStickyAndLocal ==
    [][ /\ (pc = "steps" /\ pc' = "steps" /\ is_rain_likely) => is_rain_likely'
        /\ (pc = "route" /\ pc' = "steps") => ~is_rain_likely' ]_vars

\* the first route was scored rain-affected although its last step, in a
\* later leg, is far from the rain, and the second route has analysed a step
\* with the flag false
C20_Witness ==
    /\ pc = "steps"
    /\ ri = 2
    /\ steps_analysis # <<>>
    /\ ~is_rain_likely
    /\ scored_routes[1].sheltered_segments # <<>>
    /\ Len(scored_routes[1].data.legs) = 2
    /\ LET steps == AnalysedSteps(scored_routes[1].data)
       IN /\ Len(steps) = 2
          /\ RainNear(steps[1].line, raining_points_3857)
          /\ ~RainNear(steps[2].line, raining_points_3857)

\* ---- C17: two invocations on the same SunRouter
\* the locals of a route before its first step
FreshLocals ==
    [ totals |-> [f \in TotalsFields |-> 0],
      steps_analysis |-> <<>>,
      route_sheltered_segments |-> <<>>,
      nearby_shelters_indices |-> {},
      is_rain_likely |-> FALSE ]

\* the locals after one more step, for an invocation running by itself
StepAlone(acc, step, shs, gdf, points) ==
    IF ~IsAnalysed(step) THEN acc
    ELSE LET step_length == LineLength(step.line)
             rain == RainFlag(acc.is_rain_likely, step.line, points)
             sheltered_len == ShelteredLen(gdf, step.line)
             effective == EffectiveProtection(gdf, step.line, ShadowMultipoly(shs))
         IN [ totals |-> AddStep(acc.totals, step.travelMode, step_length, effective,
                                 sheltered_len),
              steps_analysis |->
                  Append(acc.steps_analysis,
                         StepRecord(step, step_length, effective, sheltered_len)),
              route_sheltered_segments |->
                  acc.route_sheltered_segments \o StepSegments(gdf, step),
              nearby_shelters_indices |->
                  acc.nearby_shelters_indices \cup NearbyIndices(gdf, step, rain),
              is_rain_likely |-> rain ]

RECURSIVE StepsAlone(_, _, _, _)
\* the locals after the steps, in order
StepsAlone(steps, shs, gdf, points) ==
    IF steps = <<>> THEN FreshLocals
    ELSE StepAlone(StepsAlone(SubSeq(steps, 1, Len(steps) - 1), shs, gdf, points),
                   steps[Len(steps)], shs, gdf, points)

\* the record of a route scored by an invocation running by itself
RouteAlone(route, shs, gdf, points) ==
    LET acc == StepsAlone(Flatten(route.legs), shs, gdf, points)
    IN ScoredRoute(route, acc.totals, acc.steps_analysis,
                   GateOutput(acc.is_rain_likely, acc.route_sheltered_segments),
                   GateOutput(acc.is_rain_likely,
                              NearbyEncoded(gdf, acc.nearby_shelters_indices)))

\* the frame f holds what an invocation running by itself on the same
\* arguments, with the same rain, holds at the same position
AsAlone(f) ==
    LET scored == [i \in 1..(f.ri - 1) |->
                      RouteAlone(f.routes_data[i], f.shadows, shelters_3857,
                                 f.raining_points_3857)]
    IN /\ f.pc \in {"route", "steps", "raised"} => f.scored_routes = scored
       /\ f.pc \in {"steps", "raised"} =>
             LET steps == Flatten(f.routes_data[f.ri].legs)
                 acc == StepsAlone(SubSeq(steps, 1, f.si - 1), f.shadows, shelters_3857,
                                   f.raining_points_3857)
             IN /\ f.totals = acc.totals
                /\ f.steps_analysis = acc.steps_analysis
                /\ f.route_sheltered_segments = acc.route_sheltered_segments
                /\ f.nearby_shelters_indices = acc.nearby_shelters_indices
                /\ f.is_rain_likely = acc.is_rain_likely
       /\ (f.pc = "idle" /\ f.ri > Len(f.routes_data)) =>
             f.scored_routes = SortDesc(scored)

\* C17: two invocations of analyze_routes on the same SunRouter do not
\* interfere: shelters_3857 is never written, and under every interleaving
\* each invocation holds in its accumulators, and returns, what it holds and
\* returns when it runs by itself.
C17_InvocationsDoNotInterfere ==
    /\ [](AsAlone(Running) /\ AsAlone(suspended))
    /\ [][shelters_3857' = shelters_3857]_vars

\* both invocations are in the step loop of different routes, each with
\* entries collected, one rain-affected and the other not
C17_Witness ==
    /\ pc = "steps"
    /\ suspended.pc = "steps"
    /\ steps_analysis # <<>>
    /\ suspended.steps_analysis # <<>>
    /\ routes_data # suspended.routes_data
    /\ is_rain_likely
    /\ ~suspended.is_rain_likely
    /\ totals # suspended.totals

\* ---- C21: nearby shelters, once each
\* C21 (as stated): nearby_shelters of a scored route holds one encoded entry
\* for every polygon of the shelters collected near its walking steps, and
\* never the same polygon twice.
C21_NearbyOncePerPolygon ==
    \A i \in 1..Len(scored_routes) :
        LET n == scored_routes[i].nearby_shelters
        IN \A a, b \in 1..Len(n) : a # b => n[a] # n[b]

\* ---- C22: one shadow per polygon part
RECURSIVE PolygonParts(_)
\* the polygon parts of the polygonal rows, in row order
PolygonParts(rows) ==
    IF rows = <<>> THEN <<>>
    ELSE (IF Head(rows).geom_type \in {"Polygon", "MultiPolygon"}
          THEN Head(rows).parts ELSE <<>>)
         \o PolygonParts(Tail(rows))

\* C22: for a sun above the horizon calculate_shadows returns one shadow for
\* every polygon part of the polygonal buildings, in order, each covering its
\* own part: a Polygon gives one, a MultiPolygon of k parts gives k, any
\* other geometry gives none.
C22_OneShadowPerPart ==
    (Calculated /\ sun_altitude > 0) =>
        LET parts == PolygonParts(buildings)
        IN /\ Len(shadows) = Len(parts)
           /\ \A k \in 1..Len(parts) :
                 /\ shadows[k].a <= parts[k].a
                 /\ parts[k].b <= shadows[k].b

\* the shadows of a row without polygon (none) and of a MultiPolygon of two
\* parts (two, apart) were returned
C22_Witness ==
    /\ Calculated
    /\ sun_altitude > 0
    /\ \E i, j \in 1..Len(buildings) :
          /\ buildings[i].geom_type \notin {"Polygon", "MultiPolygon"}
          /\ buildings[j].geom_type = "MultiPolygon"
          /\ Len(buildings[j].parts) = 2
    /\ Len(shadows) = 2
    /\ shadows[1].b < shadows[2].a

\* ---- C23: the height of a building
\* the height the claim gives a row: its height tag if that is a number, else
\* its level count times 3 m if that is a number, else the default
C23_ClaimedHeight(row) ==
    IF row.height.kind = "number" THEN row.height.value
    ELSE IF row.levels.kind = "number" THEN row.levels.value * LEVEL_HEIGHT
         ELSE DEFAULT_HEIGHT

RECURSIVE PartOwners(_)
\* for every polygon part of the polygonal rows, the row it belongs to
PartOwners(rows) ==
    IF rows = <<>> THEN <<>>
    ELSE (IF Head(rows).geom_type \in {"Polygon", "MultiPolygon"}
          THEN [k \in 1..Len(Head(rows).parts) |-> Head(rows)] ELSE <<>>)
         \o PartOwners(Tail(rows))

\* by how many metres the k-th shadow is longer than its part
C23_ShadowLength(k) ==
    CellM * ((shadows[k].b - shadows[k].a)
               - (PolygonParts(buildings)[k].b - PolygonParts(buildings)[k].a))

\* C23 (as stated): the shadow of every building is as long as the height the
\* claim resolves times the scale factor; a building with a height tag that
\* is no number and a numeric level count casts the shadow of levels x 3 m.
C23_HeightFromTagOrLevels ==
    (Calculated /\ sun_altitude > 0) =>
        \A k \in 1..Len(shadows) :
            1000 * C23_ShadowLength(k)
               = C23_ClaimedHeight(PartOwners(buildings)[k]) * scale_factor.milli

\* ---- C24: a geometry error on one building
\* C24 (as stated): a footprint on which the geometry library raises is
\* skipped and the batch is not aborted: calculate_shadows never ends in the
\* exception, and it returns the shadows of all other buildings.
C24_GeometryErrorSkipsBuilding ==
    /\ pc # "shadows_raised"
    /\ (Calculated /\ sun_altitude > 0) =>
          Len(shadows) = Len(PolygonParts(SelectSeq(buildings, LAMBDA row : row.valid)))

\* ---- C25: the route cache
\* the calls i < j were made with the same payload
C25_SamePayload(i, j) ==
    /\ i < j
    /\ route_calls[i].payload = route_calls[j].payload

\* j is the next call after i with the payload of i
C25_NextSame(i, j) ==
    /\ C25_SamePayload(i, j)
    /\ \A k \in (i + 1)..(j - 1) : route_calls[k].payload # route_calls[i].payload

C26_NearWalkSteps(route) ==
    UNION { NearbyIndices(shelters_3857, step, TRUE) :
               step \in { AnalysedSteps(route)[k] : k \in 1..Len(AnalysedSteps(route)) } }

\* C26 (as stated): when a route ends up rain-affected its nearby_shelters
\* are those of the shelters within 100 m of any of its WALK steps, the steps
\* before the one that set the rain flag included.
C26_NearbyCoversEveryWalkStep ==
    JustScored =>
        (is_rain_likely =>
            LastScored.nearby_shelters
               = NearbyEncoded(shelters_3857, C26_NearWalkSteps(LastScored.data)))

\* ---- C27: rain and the scores
\* a scored route without the two fields that show shelter geometry
C27_Scores(r) == [r EXCEPT !.sheltered_segments = <<>>, !.nearby_shelters = <<>>]

\* what analyze_routes returns on the same routes, shadows and shelters when
\* no station reports rain
C27_DryRun ==
    SortDesc([i \in 1..Len(routes_data) |->
                 RouteAlone(routes_data[i], shadows, shelters_3857, <<>>)])

\* C27: whatever the rain readings, a call returns the routes in the order,
\* and with the shadow_ratio, shadow_length_m, sheltered_length_m,
\* total_length_m, exposed_distance_m and steps_analysis, of the call without
\* rain on the same routes, shadows and shelters; only sheltered_segments and
\* nearby_shelters depend on the rain.
C27_RainDoesNotScore ==
    \A c \in 1..Len(returned) :
        LET out == returned[c].out
        IN /\ Len(out) = Len(C27_DryRun)
           /\ \A i \in 1..Len(out) : C27_Scores(out[i]) = C27_Scores(C27_DryRun[i])

\* with rain near, a call returned two routes in other than input order, the
\* first of them with shelter geometry to show
C27_Witness ==
    /\ Len(returned) = 1
    /\ returned[1].rain # <<>>
    /\ Len(returned[1].out) = 2
    /\ returned[1].out[1].data = routes_data[2]
    /\ returned[1].out[1].data # routes_data[1]
    /\ returned[1].out[1].sheltered_segments # <<>>
    /\ returned[1].out[1].nearby_shelters # <<>>
    /\ returned[1].out[2].nearby_shelters = <<>>

\* ---- C28: sheltered length, protected length, length
\* in the entry e the sheltered length is at most the protected length, and
\* that at most the length of the step
C28_EntryOrdered(e) ==
    /\ 0 <= e.sheltered_length_m
    /\ e.sheltered_length_m <= e.shadow_length_m
    /\ e.shadow_length_m <= e.length_m

\* C28: for every analysed step sheltered_length_m <= shadow_length_m (the
\* effective protection) <= length_m, and for every route
\* sheltered_length_m <= shadow_length_m <= total_length_m, during the step
\* loop as in the scored record.
C28_ShelteredWithinProtected ==
    /\ pc = "steps" =>
          /\ \A k \in 1..Len(steps_analysis) : C28_EntryOrdered(steps_analysis[k])
          /\ totals.total_sheltered_length_m <= totals.total_shadow_length_m
          /\ totals.total_shadow_length_m <= totals.total_length_m
          /\ totals.total_walk_sheltered_length_m <= totals.total_walk_shadow_length_m
          /\ totals.total_walk_shadow_length_m <= totals.total_walk_length_m
    /\ \A i \in 1..Len(scored_routes) :
          LET r == scored_routes[i]
          IN /\ \A k \in 1..Len(r.steps_analysis) : C28_EntryOrdered(r.steps_analysis[k])
             /\ r.sheltered_length_m <= r.shadow_length_m
             /\ r.shadow_length_m <= r.total_length_m

\* a route was scored with a step under a shelter and a step in shadow alone:
\* its sheltered length is positive and below its protected length
C28_Witness ==
    /\ JustScored
    /\ 0 < LastScored.sheltered_length_m
    /\ LastScored.sheltered_length_m < LastScored.shadow_length_m
    /\ \E k, j \in 1..Len(LastScored.steps_analysis) :
          /\ LastScored.steps_analysis[k].sheltered_length_m > 0
          /\ LastScored.steps_analysis[j].sheltered_length_m = 0
          /\ LastScored.steps_analysis[j].shadow_length_m > 0

\* ---- C29: the report table
\* the rows other than id are as they were
C29_OthersKept(id) == \A other \in ReportIds \ {id} : reports'[other] = reports[other]

\* a report request was answered as the claim says
C29_Answered ==
    LET id == response'.id
    IN /\ response'.status = 404 =>
             /\ reports[id].state # "stored"
             /\ reports' = reports
       /\ response'.status = 500 => reports' = reports
       /\ (response'.op = "create" /\ response'.status = 200) =>
             /\ reports[id].state = "new"
             /\ reports'[id] = Row(1, 0)
             /\ C29_OthersKept(id)
       /\ (response'.op = "confirm" /\ response'.status = 200) =>
             /\ reports[id].state = "stored"
             /\ reports'[id] = Row(reports[id].confirmations + 1, reports[id].denials)
             /\ C29_OthersKept(id)
       /\ (response'.op = "deny" /\ response'.status = 200) =>
             /\ reports[id].state = "stored"
             /\ reports'[id] = IF reports[id].confirmations - 1 <= 0 THEN Gone
                               ELSE Row(reports[id].confirmations - 1, reports[id].denials)
             /\ C29_OthersKept(id)

\* C29: every stored report has confirmations >= 1.  A report is created
\* with confirmations 1, confirm adds 1, deny subtracts 1 and deletes the
\* report when the count reaches 0 or less; confirm or deny on an id that is
\* unknown or deleted answers 404 and leaves the table unchanged.
C29_ConfirmationsPositive ==
    /\ [](\A id \in ReportIds :
             reports[id].state = "stored" => reports[id].confirmations >= 1)
    /\ [][/\ reports' # reports => response' # response
          /\ response' # response => C29_Answered]_vars

\* one report is stored as created, one was confirmed, one was denied away,
\* and a further deny on that one answered 404
C29_Witness ==
    /\ response = Reply("deny", 2, 404, 0)
    /\ reports[2] = Gone
    /\ reports[1] = Row(1, 0)
    /\ reports[3] = Row(2, 0)

====
